---- MODULE Spec2Model ----
(***************************************************************************)
(* The cleaning pipeline of scripts/data_cleaning.py as a state machine.   *)
(*                                                                         *)
(* One run of the script is one behaviour: Init chooses the raw file       *)
(* (absent, zero bytes, a header with a column missing, or a header with   *)
(* all six required columns and up to MaxRows rows), and every block of    *)
(* the script is one action, taken in program order through pc.            *)
(*                                                                         *)
(* Values.  A cell of a DataFrame is a record [t, v, s]:                   *)
(*   t = "float"    v = the number            (float64); s = "" unless the *)
(*                  number is a quotient kept in the unit that s names     *)
(*   t = "nan"      float NaN / missing value                              *)
(*   t = "str"      a Python str in an object column; s tells what the     *)
(*                  text is ("numeral", "timestamp", "junk", or the text   *)
(*                  itself for reasons and day names), v the number or     *)
(*                  the instant that a numeral or timestamp text denotes   *)
(*   t = "datetime" v = the instant, in seconds   (datetime64)             *)
(*   t = "nat"      NaT                                                    *)
(*   t = "int"      v = the integer                                        *)
(*   t = "text"     a field of the CSV file before read_csv                *)
(* Units of the float columns (TLC has integers only):                     *)
(*   coordinates       1e-4 degree                                         *)
(*   trip_duration     second                                              *)
(*   trip_distance_km  1e-6 km                                             *)
(*   speed_kmph        1e-4 km/h                                           *)
(* The coordinate grid lies next to both range limits (latitude 90,        *)
(* longitude 180) so that in-range and out-of-range points, distances      *)
(* below the rounding step and ordinary distances all fit TLC's integers.  *)
(***************************************************************************)
EXTENDS Integers, Sequences, FiniteSets, TLC

\* The largest number of data rows of the raw file.
MaxRows == 3

----------------------------------------------------------------------------
\* Cells

Cell(t, v, s) == [t |-> t, v |-> v, s |-> s]
NaN == Cell("nan", 0, "")
NaT == Cell("nat", 0, "")
Float(n) == Cell("float", n, "")
Int64(n) == Cell("int", n, "")
Str(s, n) == Cell("str", n, s)
Datetime(n) == Cell("datetime", n, "")
Text(s, n) == Cell("text", n, s)

\* pandas.isna of one cell.
isna(c) == c.t \in {"nan", "nat"}

Range(f) == {f[i] : i \in DOMAIN f}

RECURSIVE SumSeq(_)
SumSeq(s) == IF s = <<>> THEN 0 ELSE Head(s) + SumSeq(Tail(s))

----------------------------------------------------------------------------
\* Frames: columns (in order), index labels (in order), data[label][column].

Frame(columns, index, data) == [columns |-> columns, index |-> index, data |-> data]
EmptyFrame == Frame(<<>>, <<>>, <<>>)

\* A failed Python statement: the exception type it raises.
NoError == "none"

Labels(frame) == Range(frame.index)

\* frame[mask]: the rows whose label is in keep, order kept.
Select(frame, keep) ==
    LET idx == SelectSeq(frame.index, LAMBDA i : i \in keep)
    IN  Frame(frame.columns, idx, [i \in Range(idx) |-> frame.data[i]])

\* frame[col] = value[label] for every row; a new column goes last.
Assign(frame, col, value) ==
    Frame(IF col \in Range(frame.columns) THEN frame.columns
                                           ELSE Append(frame.columns, col),
          frame.index,
          [i \in Labels(frame) |->
              [c \in DOMAIN frame.data[i] \cup {col} |->
                  IF c = col THEN value[i] ELSE frame.data[i][c]]])

HasColumns(frame, cols) == Range(cols) \subseteq Range(frame.columns)

----------------------------------------------------------------------------
\* Column names (lines 66-70, 142, and the derived columns of lines 87-104)

\* Variant: the coordinates not required.
required_cols_timestamps_only == <<"pickup_datetime", "dropoff_datetime">>

required_cols ==
    <<"pickup_datetime", "dropoff_datetime",
      "pickup_longitude", "pickup_latitude",
      "dropoff_longitude", "dropoff_latitude">>

coord_cols ==
    <<"pickup_longitude", "pickup_latitude", "dropoff_longitude", "dropoff_latitude">>

derived_cols ==
    <<"trip_duration", "trip_distance_km", "speed_kmph", "pickup_hour", "pickup_dayofweek">>

----------------------------------------------------------------------------
\* pd.read_csv (line 57)

\* A column is parsed as float64 when every field is empty or a numeral;
\* otherwise it stays an object column of str (and NaN for the empty fields).
ColumnIsNumeric(rows, col) ==
    \A k \in DOMAIN rows : rows[k][col].s \in {"", "numeral"}

ReadCell(field, numeric) ==
    IF field.s = "" THEN NaN
    ELSE IF numeric THEN Float(field.v)
    ELSE Str(field.s, field.v)

\* The frame of a file with a header: RangeIndex labels, here 1..n.
read_csv(header, rows) ==
    Frame(header,
          [k \in DOMAIN rows |-> k],
          [k \in DOMAIN rows |->
              [c \in Range(header) |-> ReadCell(rows[k][c], ColumnIsNumeric(rows, c))]])

----------------------------------------------------------------------------
\* DataFrame.drop_duplicates (line 63): the first of equal rows stays.

drop_duplicates(frame) ==
    LET pos(i) == CHOOSE k \in DOMAIN frame.index : frame.index[k] = i
    IN  Select(frame, {i \in Labels(frame) :
                          \A j \in Labels(frame) :
                              (pos(j) < pos(i)) => (frame.data[j] # frame.data[i])})

\* Variant: how="all".
dropna_all(frame, subset) ==
    Select(frame, {i \in Labels(frame) : \E c \in Range(subset) : ~isna(frame.data[i][c])})

\* DataFrame.dropna(subset=...) (lines 75, 80, 145): how="any".
dropna(frame, subset) ==
    Select(frame, {i \in Labels(frame) : \A c \in Range(subset) : ~isna(frame.data[i][c])})

\* Variant: no column is ever found missing.
missing_required_none(frame) == <<>>

\* The required columns the frame lacks (line 71).
missing_required(frame) ==
    SelectSeq(required_cols, LAMBDA c : c \notin Range(frame.columns))

----------------------------------------------------------------------------
\* Conversions

\* pd.to_datetime(..., errors='coerce') (lines 78-79) of one cell.
to_datetime(c) ==
    CASE c.t = "datetime" -> c
      [] c.t = "str" /\ c.s = "timestamp" -> Datetime(c.v)
      [] OTHER -> NaT

\* Series.astype(float) (lines 91-92) raises ValueError on a str that is no
\* numeral; it converts everything else.
astype_float_raises(c) == c.t = "str" /\ c.s # "numeral"

astype_float(c) ==
    CASE c.t \in {"float", "int"} -> Float(c.v)
      [] c.t = "str" /\ c.s = "numeral" -> Float(c.v)
      [] OTHER -> NaN

\* Series.abs() (line 114) raises TypeError on an element that is a str.
abs_raises(c) == c.t = "str"

abs(c) == IF c.t = "float" THEN Float(IF c.v < 0 THEN -c.v ELSE c.v) ELSE c

\* pd.to_numeric(..., errors='coerce') (line 144) of one cell.
to_numeric(c) ==
    CASE c.t \in {"float", "int"} -> c
      [] c.t = "str" /\ c.s = "numeral" -> Float(c.v)
      [] OTHER -> NaN

----------------------------------------------------------------------------
\* haversine (lines 38-45)

\* R * 2 * arctan2(sqrt(a), sqrt(1 - a)) of lines 40-45 evaluated in IEEE
\* doubles at the grid points, in 1e-6 km rounded down, by
\* <<lat1, lat2, dlambda>> with dlambda = lon2 - lon1 as on line 43
\* (coordinates in 1e-4 degree).
HaversineMicroKm ==
    <<899800, 899800, -200>> :> 776 @@ <<899800, 899800, -199>> :> 772 @@
    <<899800, 899800, -1>> :> 3 @@ <<899800, 899800, 0>> :> 0 @@
    <<899800, 899800, 1>> :> 3 @@ <<899800, 899800, 199>> :> 772 @@
    <<899800, 899800, 200>> :> 776 @@ <<899800, 899890, -200>> :> 1000754 @@
    <<899800, 899890, -199>> :> 1000754 @@ <<899800, 899890, -1>> :> 1000754 @@
    <<899800, 899890, 0>> :> 1000754 @@ <<899800, 899890, 1>> :> 1000754 @@
    <<899800, 899890, 199>> :> 1000754 @@ <<899800, 899890, 200>> :> 1000754 @@
    <<899800, 900100, -200>> :> 3335847 @@ <<899800, 900100, -199>> :> 3335847 @@
    <<899800, 900100, -1>> :> 3335847 @@ <<899800, 900100, 0>> :> 3335847 @@
    <<899800, 900100, 1>> :> 3335847 @@ <<899800, 900100, 199>> :> 3335847 @@
    <<899800, 900100, 200>> :> 3335847 @@ <<899890, 899800, -200>> :> 1000754 @@
    <<899890, 899800, -199>> :> 1000754 @@ <<899890, 899800, -1>> :> 1000754 @@
    <<899890, 899800, 0>> :> 1000754 @@ <<899890, 899800, 1>> :> 1000754 @@
    <<899890, 899800, 199>> :> 1000754 @@ <<899890, 899800, 200>> :> 1000754 @@
    <<899890, 899890, -200>> :> 426 @@ <<899890, 899890, -199>> :> 424 @@
    <<899890, 899890, -1>> :> 2 @@ <<899890, 899890, 0>> :> 0 @@
    <<899890, 899890, 1>> :> 2 @@ <<899890, 899890, 199>> :> 424 @@
    <<899890, 899890, 200>> :> 426 @@ <<899890, 900100, -200>> :> 2335093 @@
    <<899890, 900100, -199>> :> 2335093 @@ <<899890, 900100, -1>> :> 2335093 @@
    <<899890, 900100, 0>> :> 2335093 @@ <<899890, 900100, 1>> :> 2335093 @@
    <<899890, 900100, 199>> :> 2335093 @@ <<899890, 900100, 200>> :> 2335093 @@
    <<900100, 899800, -200>> :> 3335847 @@ <<900100, 899800, -199>> :> 3335847 @@
    <<900100, 899800, -1>> :> 3335847 @@ <<900100, 899800, 0>> :> 3335847 @@
    <<900100, 899800, 1>> :> 3335847 @@ <<900100, 899800, 199>> :> 3335847 @@
    <<900100, 899800, 200>> :> 3335847 @@ <<900100, 899890, -200>> :> 2335093 @@
    <<900100, 899890, -199>> :> 2335093 @@ <<900100, 899890, -1>> :> 2335093 @@
    <<900100, 899890, 0>> :> 2335093 @@ <<900100, 899890, 1>> :> 2335093 @@
    <<900100, 899890, 199>> :> 2335093 @@ <<900100, 899890, 200>> :> 2335093 @@
    <<900100, 900100, -200>> :> 388 @@ <<900100, 900100, -199>> :> 386 @@
    <<900100, 900100, -1>> :> 1 @@ <<900100, 900100, 0>> :> 0 @@
    <<900100, 900100, 1>> :> 1 @@ <<900100, 900100, 199>> :> 386 @@
    <<900100, 900100, 200>> :> 388

haversine(lat1, lon1, lat2, lon2) ==
    IF isna(lat1) \/ isna(lon1) \/ isna(lat2) \/ isna(lon2) THEN NaN
    ELSE Float(HaversineMicroKm[<<lat1.v, lat2.v, lon2.v - lon1.v>>])

----------------------------------------------------------------------------
\* Derived fields (lines 87-104)

\* (dropoff - pickup).dt.total_seconds()
total_seconds(dropoff, pickup) ==
    IF isna(dropoff) \/ isna(pickup) THEN NaN ELSE Float(dropoff.v - pickup.v)

\* np.where(duration > 0, distance / (duration / 3600.0), np.nan):
\* 1e-6 km * 3600 / s = 36 * 1e-4 km/h.
speed_kmph(duration, distance) ==
    IF duration.t = "float" /\ duration.v > 0
    THEN (IF isna(distance) THEN NaN ELSE Float((distance.v * 36) \div duration.v))
    ELSE NaN

\* .dt.hour
dt_hour(c) == IF isna(c) THEN NaN ELSE Int64((c.v \div 3600) % 24)

\* .dt.day_name(); the epoch day was a Thursday.
dt_day_name(c) ==
    IF isna(c) THEN NaN
    ELSE Str(<<"Thursday", "Friday", "Saturday", "Sunday",
               "Monday", "Tuesday", "Wednesday">>[((c.v \div 86400) % 7) + 1], 0)

----------------------------------------------------------------------------
\* Comparisons of a Series element with a number: False on NaN.

le(c, n) == c.t \in {"float", "int"} /\ c.v <= n
gt(c, n) == c.t \in {"float", "int"} /\ c.v > n

----------------------------------------------------------------------------
\* Exclusion conditions (lines 109-116): <<reason, mask>> in priority order.

Col(frame, i, c) == frame.data[i][c]

duration_mask(frame) == [i \in Labels(frame) |-> le(Col(frame, i, "trip_duration"), 0)]

coords_na_mask(frame) ==
    [i \in Labels(frame) |-> \E c \in Range(coord_cols) : isna(Col(frame, i, c))]

distance_mask(frame) == [i \in Labels(frame) |-> le(Col(frame, i, "trip_distance_km"), 0)]

\* speed_kmph > 120
speed_mask(frame) == [i \in Labels(frame) |-> gt(Col(frame, i, "speed_kmph"), 1200000)]

\* |latitude| > 90 or |longitude| > 180, pickup or dropoff
extreme_mask(frame) ==
    [i \in Labels(frame) |->
        \/ gt(abs(Col(frame, i, "pickup_latitude")), 900000)
        \/ gt(abs(Col(frame, i, "dropoff_latitude")), 900000)
        \/ gt(abs(Col(frame, i, "pickup_longitude")), 1800000)
        \/ gt(abs(Col(frame, i, "dropoff_longitude")), 1800000)]

conditions(frame) ==
    << <<"negative_or_zero_duration", duration_mask(frame)>>,
       <<"missing_or_invalid_coords", coords_na_mask(frame)>>,
       <<"zero_or_negative_distance", distance_mask(frame)>>,
       <<"unrealistic_speed", speed_mask(frame)>>,
       <<"extreme_coords", extreme_mask(frame)>> >>

\* Building the condition list raises where Series.abs() meets a str (line 114).
conditions_raise(frame) ==
    \E i \in Labels(frame) : \E c \in Range(coord_cols) : abs_raises(Col(frame, i, c))

\* Variant: a later condition takes over rows that are excluded already.
new_exclusions_overwriting(mask, exclude_mask_) == mask

\* new_exclusions = mask & (~exclude_mask) (line 122)
new_exclusions(mask, exclude_mask_) ==
    [i \in DOMAIN mask |-> mask[i] /\ ~exclude_mask_[i]]

\* The exclusion loop (lines 118-125).

RECURSIVE exclusion_loop(_, _, _)
exclusion_loop(conds, exclude_mask_, exclude_reason_) ==
    IF conds = <<>> THEN [mask |-> exclude_mask_, reason |-> exclude_reason_]
    ELSE LET reason == Head(conds)[1]
             mask == Head(conds)[2]
             new == new_exclusions(mask, exclude_mask_)
         IN  exclusion_loop(
                 Tail(conds),
                 [i \in DOMAIN mask |-> exclude_mask_[i] \/ mask[i]],
                 [i \in DOMAIN mask |-> IF new[i] THEN reason ELSE exclude_reason_[i]])

\* Variant: without the exclude_reason column when no row is excluded.
log_frame_only_when_excluded(frame, exclude_mask_, exclude_reason_) ==
    LET ex == Select(frame, {i \in Labels(frame) : exclude_mask_[i]})
    IN  IF ex.index # <<>>
        THEN Assign(ex, "exclude_reason", [i \in Labels(ex) |-> Str(exclude_reason_[i], 0)])
        ELSE ex

\* The frame written to LOG_FILE (lines 127-134).
log_frame(frame, exclude_mask_, exclude_reason_) ==
    LET ex == Select(frame, {i \in Labels(frame) : exclude_mask_[i]})
    IN  IF ex.index # <<>>
        THEN Assign(ex, "exclude_reason", [i \in Labels(ex) |-> Str(exclude_reason_[i], 0)])
        ELSE Frame(Append(frame.columns, "exclude_reason"), <<>>, <<>>)

\* Variant: the excluded rows stay.
retained_everything(frame, exclude_mask_) == frame

\* df[~exclude_mask] (line 136)
retained(frame, exclude_mask_) == Select(frame, {i \in Labels(frame) : ~exclude_mask_[i]})

----------------------------------------------------------------------------
\* zscore_series (lines 47-48): (s - s.mean()) / s.std(ddof=0) in float64.
\* A mean is the fraction num/den plus ulps units in the last place of the
\* values; a standard deviation is the square root of the fraction num/den,
\* or ulps units in the last place where that fraction is zero.

Column(frame, c) == [k \in DOMAIN frame.index |-> frame.data[frame.index[k]][c]]

Values(s) == LET x == SelectSeq(s, LAMBDA c : ~isna(c)) IN [k \in DOMAIN x |-> x[k].v]

\* fl(fl(x + ... + x) / n) - x for n equal float64 values x, in units in the
\* last place of x, evaluated in IEEE doubles at the grid points, by
\* <<x in 1e-4 degree, n>>: the sum of three equal doubles is rounded, and
\* a third of the rounded sum need not be x again.
MeanRoundingUlps ==
    <<899800, 1>> :> 0 @@ <<899800, 2>> :> 0 @@ <<899800, 3>> :> 0 @@ <<899800, 4>> :> 0 @@
    <<899890, 1>> :> 0 @@ <<899890, 2>> :> 0 @@ <<899890, 3>> :> -1 @@ <<899890, 4>> :> 0 @@
    <<900100, 1>> :> 0 @@ <<900100, 2>> :> 0 @@ <<900100, 3>> :> 0 @@ <<900100, 4>> :> 0 @@
    <<1799900, 1>> :> 0 @@ <<1799900, 2>> :> 0 @@ <<1799900, 3>> :> 0 @@ <<1799900, 4>> :> 0 @@
    <<1799901, 1>> :> 0 @@ <<1799901, 2>> :> 0 @@ <<1799901, 3>> :> 0 @@ <<1799901, 4>> :> 0 @@
    <<1800100, 1>> :> 0 @@ <<1800100, 2>> :> 0 @@ <<1800100, 3>> :> 0 @@ <<1800100, 4>> :> 0

\* The rounding error of sum / count.  It is kept where it decides the
\* result, for a series of equal values, whose deviations are otherwise all
\* zero; against the spread of unequal values it is nothing.
mean_rounding(x) ==
    IF x # <<>> /\ (\A k \in DOMAIN x : x[k] = x[1])
    THEN MeanRoundingUlps[<<x[1], Len(x)>>]
    ELSE 0

\* s.mean(): sum / count
series_mean(s) ==
    [num |-> SumSeq(Values(s)), den |-> Len(Values(s)), ulps |-> mean_rounding(Values(s))]

\* s.std(ddof=0): sqrt(sum((sum / count - s) ** 2) / count), the squares
\* taken of n times the deviations.
series_std(s) ==
    LET x == Values(s)
        n == Len(x)
        e == mean_rounding(x)
        dev == [k \in DOMAIN x |-> (n * x[k] - SumSeq(x)) * (n * x[k] - SumSeq(x))]
    IN  [num |-> SumSeq(dev), den |-> n * n * n, ulps |-> IF e < 0 THEN -e ELSE e]

\* float64 division of s - mean by std: 0/0 is NaN, x/0 is an infinity; no
\* exception.  x is n * (s - mean) as num, and the rounding of the mean as
\* ulps.  Over a std with a spread the quotient is kept as its numerator, in
\* units of 1 / (n * std); over a std of rounding alone it is +1.0 or -1.0.
divide(x, std) ==
    IF std.num # 0 THEN Cell("float", x.num, "/(n*std)")
    ELSE IF std.ulps # 0 THEN Float(x.ulps \div std.ulps)
    ELSE IF x.num = 0 /\ x.ulps = 0 THEN NaN
    ELSE Cell("float", x.num, "inf")

zscore_series(s) ==
    LET mean == series_mean(s)
        std == series_std(s)
    IN  [k \in DOMAIN s |->
            IF isna(s[k]) THEN NaN
            ELSE divide([num |-> mean.den * s[k].v - mean.num, ulps |-> -mean.ulps], std)]

\* Variant: the column of df, excluded rows included.
zscore_input_before_exclusion(cleaned, frame, c) == Column(frame, c)

\* The series zscore_series is applied to for a column (line 147).
zscore_input(cleaned, frame, c) == Column(cleaned, c)

----------------------------------------------------------------------------
\* Series.round (lines 154-155): to the nearest multiple of step, halves to even.

round_half_even(n, step) ==
    LET q == n \div step
        r == n % step
    IN  IF 2 * r < step THEN q * step
        ELSE IF 2 * r > step THEN (q + 1) * step
        ELSE IF q % 2 = 0 THEN q * step ELSE (q + 1) * step

\* round(5) of 1e-6 km and round(3) of 1e-4 km/h both round to tens.
round_cell(c) == IF c.t = "float" /\ c.s = "" THEN Float(round_half_even(c.v, 10)) ELSE c

----------------------------------------------------------------------------
\* The raw files the run may find at RAW_FILE (line 31)

Blank == Text("", 0)
Junk == Text("junk", 0)
NumText(n) == Text("numeral", n)
TsText(n) == Text("timestamp", n)

\* A sound trip: ten minutes, 1.0 km.
NominalRow ==
    [pickup_datetime   |-> TsText(61200),
     dropoff_datetime  |-> TsText(61800),
     pickup_longitude  |-> NumText(1799900),
     pickup_latitude   |-> NumText(899890),
     dropoff_longitude |-> NumText(1799900),
     dropoff_latitude  |-> NumText(899800)]

\* One field of the sound trip replaced.
FieldDefects ==
    {<<"pickup_datetime", Junk>>,
     <<"dropoff_datetime", Blank>>,
     <<"dropoff_datetime", TsText(61140)>>,      \* dropoff before pickup
     <<"dropoff_datetime", TsText(61201)>>,      \* one second: 3603 km/h
     <<"pickup_longitude", Blank>>,
     <<"pickup_latitude", Junk>>,
     <<"pickup_latitude", NumText(900100)>>,     \* 90.01
     <<"dropoff_longitude", NumText(1800100)>>,  \* 180.01
     <<"dropoff_longitude", NumText(1799901)>>,  \* another sound trip
     <<"dropoff_latitude", NumText(899890)>>}    \* the pickup point

\* Two fields replaced.
FieldDefectPairs ==
    {\* 2 mm from the pickup point
     << <<"dropoff_latitude", NumText(899890)>>, <<"dropoff_longitude", NumText(1799901)>> >>,
     \* too fast and out of range
     << <<"dropoff_datetime", TsText(61201)>>, <<"dropoff_latitude", NumText(900100)>> >>,
     \* zero duration and zero distance
     << <<"dropoff_datetime", TsText(61200)>>, <<"dropoff_latitude", NumText(899890)>> >>,
     \* unparseable timestamp and out of range
     << <<"pickup_datetime", Junk>>, <<"dropoff_longitude", NumText(1800100)>> >>,
     \* unparseable timestamp and a coordinate that is no number
     << <<"dropoff_datetime", Junk>>, <<"pickup_latitude", Junk>> >>}

RawRows ==
    {NominalRow}
    \cup {[NominalRow EXCEPT ![d[1]] = d[2]] : d \in FieldDefects}
    \cup {[NominalRow EXCEPT ![p[1][1]] = p[1][2], ![p[2][1]] = p[2][2]] : p \in FieldDefectPairs}

\* The header of a file that has every column of NominalRow.
FullHeader ==
    <<"pickup_datetime", "dropoff_datetime",
      "pickup_longitude", "pickup_latitude",
      "dropoff_longitude", "dropoff_latitude">>

Project(row, header) == [c \in Range(header) |-> row[c]]

\* The header with its k-th column left out.
Without(header, k) == [j \in 1..(Len(header) - 1) |-> IF j < k THEN header[j] ELSE header[j + 1]]

RawFiles ==
    \* no file
    {[exists |-> FALSE, header |-> <<>>, rows |-> <<>>]}
    \cup
    \* a file of zero bytes
    {[exists |-> TRUE, header |-> <<>>, rows |-> <<>>]}
    \cup
    \* a required column missing
    {[exists |-> TRUE, header |-> Without(FullHeader, k),
      rows |-> [j \in 1..n |-> Project(NominalRow, Without(FullHeader, k))]] :
        k \in DOMAIN FullHeader, n \in 0..MaxRows}
    \cup
    \* all six required columns
    {[exists |-> TRUE, header |-> FullHeader, rows |-> rows] :
        rows \in UNION {[1..n -> RawRows] : n \in 0..MaxRows}}

----------------------------------------------------------------------------
\* State

VARIABLES
    pc,               \* the block of the script that runs next
    err,              \* the exception that ended the run, or NoError
    raw,              \* the file at RAW_FILE
    df,               \* df
    exclude_mask,     \* exclude_mask, by index label
    exclude_reason,   \* exclude_reason, by index label
    df_cleaned,       \* df_cleaned
    zstats,           \* s.mean() and s.std(ddof=0) of each zscore_series call
    LOG_FILE,         \* the file at LOG_FILE
    CLEAN_FILE        \* the file at CLEAN_FILE

vars == <<pc, err, raw, df, exclude_mask, exclude_reason, df_cleaned, zstats,
          LOG_FILE, CLEAN_FILE>>

\* A file the run has not written: whatever was there before, if anything.
Untouched == [written |-> FALSE, content |-> EmptyFrame]
Written(frame) == [written |-> TRUE, content |-> frame]

Init ==
    /\ pc = "load"
    /\ err = NoError
    /\ raw \in RawFiles
    /\ df = EmptyFrame
    /\ exclude_mask = <<>>
    /\ exclude_reason = <<>>
    /\ df_cleaned = EmptyFrame
    /\ zstats = <<>>
    /\ LOG_FILE = Untouched
    /\ CLEAN_FILE = Untouched

\* An uncaught exception ends the script.
Raise(exception) ==
    /\ pc' = "aborted"
    /\ err' = exception

----------------------------------------------------------------------------
\* The blocks of the script

\* lines 53-58
Load ==
    /\ pc = "load"
    /\ IF ~raw.exists
       THEN Raise("FileNotFoundError") /\ UNCHANGED df
       ELSE IF raw.header = <<>>
       THEN Raise("EmptyDataError") /\ UNCHANGED df
       ELSE /\ df' = read_csv(raw.header, raw.rows)
            /\ pc' = "drop_duplicates"
            /\ UNCHANGED err
    /\ UNCHANGED <<raw, exclude_mask, exclude_reason, df_cleaned, zstats, LOG_FILE, CLEAN_FILE>>

\* line 63
DropDuplicates ==
    /\ pc = "drop_duplicates"
    /\ df' = drop_duplicates(df)
    /\ pc' = "check_columns"
    /\ UNCHANGED <<err, raw, exclude_mask, exclude_reason, df_cleaned, zstats, LOG_FILE, CLEAN_FILE>>

\* lines 66-73
CheckColumns ==
    /\ pc = "check_columns"
    /\ IF missing_required(df) # <<>>
       THEN Raise("KeyError")
       ELSE pc' = "dropna_required" /\ UNCHANGED err
    /\ UNCHANGED <<raw, df, exclude_mask, exclude_reason, df_cleaned, zstats, LOG_FILE, CLEAN_FILE>>

\* line 75; dropna itself raises KeyError for a subset column the frame lacks
DropnaRequired ==
    /\ pc = "dropna_required"
    /\ IF ~HasColumns(df, required_cols)
       THEN Raise("KeyError") /\ UNCHANGED df
       ELSE /\ df' = dropna(df, required_cols)
            /\ pc' = "parse_timestamps"
            /\ UNCHANGED err
    /\ UNCHANGED <<raw, exclude_mask, exclude_reason, df_cleaned, zstats, LOG_FILE, CLEAN_FILE>>

\* lines 78-80; df[col] raises KeyError for a column the frame lacks
ParseTimestamps ==
    /\ pc = "parse_timestamps"
    /\ IF ~HasColumns(df, <<"pickup_datetime", "dropoff_datetime">>)
       THEN Raise("KeyError") /\ UNCHANGED df
       ELSE /\ LET p == Assign(df, "pickup_datetime",
                        [i \in Labels(df) |-> to_datetime(Col(df, i, "pickup_datetime"))])
                   d == Assign(p, "dropoff_datetime",
                        [i \in Labels(p) |-> to_datetime(Col(p, i, "dropoff_datetime"))])
               IN  df' = dropna(d, <<"pickup_datetime", "dropoff_datetime">>)
            /\ pc' = "derive"
            /\ UNCHANGED err
    /\ UNCHANGED <<raw, exclude_mask, exclude_reason, df_cleaned, zstats, LOG_FILE, CLEAN_FILE>>

\* lines 87-104; df[col] raises KeyError for a column the frame lacks
Derive ==
    /\ pc = "derive"
    /\ IF ~HasColumns(df, coord_cols)
       THEN Raise("KeyError") /\ UNCHANGED df
       ELSE IF \E i \in Labels(df) : \E c \in Range(coord_cols) :
                   astype_float_raises(Col(df, i, c))
       THEN Raise("ValueError") /\ UNCHANGED df
       ELSE /\ LET a == Assign(df, "trip_duration",
                        [i \in Labels(df) |->
                            total_seconds(Col(df, i, "dropoff_datetime"),
                                          Col(df, i, "pickup_datetime"))])
                   b == Assign(a, "trip_distance_km",
                        [i \in Labels(a) |->
                            haversine(astype_float(Col(a, i, "pickup_latitude")),
                                      astype_float(Col(a, i, "pickup_longitude")),
                                      astype_float(Col(a, i, "dropoff_latitude")),
                                      astype_float(Col(a, i, "dropoff_longitude")))])
                   c == Assign(b, "speed_kmph",
                        [i \in Labels(b) |->
                            speed_kmph(Col(b, i, "trip_duration"),
                                       Col(b, i, "trip_distance_km"))])
                   d == Assign(c, "pickup_hour",
                        [i \in Labels(c) |-> dt_hour(Col(c, i, "pickup_datetime"))])
               IN  df' = Assign(d, "pickup_dayofweek",
                        [i \in Labels(d) |-> dt_day_name(Col(d, i, "pickup_datetime"))])
            /\ pc' = "classify"
            /\ UNCHANGED err
    /\ UNCHANGED <<raw, exclude_mask, exclude_reason, df_cleaned, zstats, LOG_FILE, CLEAN_FILE>>

\* lines 109-125
Classify ==
    /\ pc = "classify"
    /\ IF conditions_raise(df)
       THEN Raise("TypeError") /\ UNCHANGED <<exclude_mask, exclude_reason>>
       ELSE /\ LET r == exclusion_loop(conditions(df),
                                       [i \in Labels(df) |-> FALSE],
                                       [i \in Labels(df) |-> ""])
               IN  /\ exclude_mask' = r.mask
                   /\ exclude_reason' = r.reason
            /\ pc' = "write_log"
            /\ UNCHANGED err
    /\ UNCHANGED <<raw, df, df_cleaned, zstats, LOG_FILE, CLEAN_FILE>>

\* lines 127-134
WriteLog ==
    /\ pc = "write_log"
    /\ LOG_FILE' = Written(log_frame(df, exclude_mask, exclude_reason))
    /\ pc' = "select_cleaned"
    /\ UNCHANGED <<err, raw, df, exclude_mask, exclude_reason, df_cleaned, zstats, CLEAN_FILE>>

\* line 136
SelectCleaned ==
    /\ pc = "select_cleaned"
    /\ df_cleaned' = retained(df, exclude_mask)
    /\ pc' = "revalidate"
    /\ UNCHANGED <<err, raw, df, exclude_mask, exclude_reason, zstats, LOG_FILE, CLEAN_FILE>>

RECURSIVE CoerceColumns(_, _)
\* for col in cols: frame[col] = pd.to_numeric(frame[col], errors='coerce')
CoerceColumns(frame, cols) ==
    IF cols = <<>> THEN frame
    ELSE CoerceColumns(
             Assign(frame, Head(cols),
                    [i \in Labels(frame) |-> to_numeric(Col(frame, i, Head(cols)))]),
             Tail(cols))

\* lines 142-145
Revalidate ==
    /\ pc = "revalidate"
    /\ df_cleaned' = dropna(CoerceColumns(df_cleaned, coord_cols), coord_cols)
    /\ pc' = "zscore"
    /\ UNCHANGED <<err, raw, df, exclude_mask, exclude_reason, zstats, LOG_FILE, CLEAN_FILE>>

\* col + '_z'
ZName(col) ==
    CASE col = "pickup_longitude" -> "pickup_longitude_z"
      [] col = "pickup_latitude" -> "pickup_latitude_z"
      [] col = "dropoff_longitude" -> "dropoff_longitude_z"
      [] col = "dropoff_latitude" -> "dropoff_latitude_z"

\* The position of label i in the frame's index.
Pos(frame, i) == CHOOSE k \in DOMAIN frame.index : frame.index[k] = i

RECURSIVE AddZColumns(_, _, _)
\* for col in coord_cols: df_cleaned[col + '_z'] = zscore_series(df_cleaned[col])
AddZColumns(cleaned, frame, cols) ==
    IF cols = <<>> THEN cleaned
    ELSE LET z == zscore_series(zscore_input(cleaned, frame, Head(cols)))
         IN  AddZColumns(
                 Assign(cleaned, ZName(Head(cols)),
                        [i \in Labels(cleaned) |-> z[Pos(cleaned, i)]]),
                 frame, Tail(cols))

\* lines 146-147
Zscore ==
    /\ pc = "zscore"
    /\ df_cleaned' = AddZColumns(df_cleaned, df, coord_cols)
    /\ zstats' = [c \in Range(coord_cols) |->
                     [mean |-> series_mean(zscore_input(df_cleaned, df, c)),
                      std  |-> series_std(zscore_input(df_cleaned, df, c))]]
    /\ pc' = "round"
    /\ UNCHANGED <<err, raw, df, exclude_mask, exclude_reason, LOG_FILE, CLEAN_FILE>>

\* lines 154-155
Round ==
    /\ pc = "round"
    /\ LET a == Assign(df_cleaned, "trip_distance_km",
                       [i \in Labels(df_cleaned) |-> round_cell(Col(df_cleaned, i, "trip_distance_km"))])
       IN  df_cleaned' = Assign(a, "speed_kmph",
                                [i \in Labels(a) |-> round_cell(Col(a, i, "speed_kmph"))])
    /\ pc' = "write_cleaned"
    /\ UNCHANGED <<err, raw, df, exclude_mask, exclude_reason, zstats, LOG_FILE, CLEAN_FILE>>

\* line 160
WriteCleaned ==
    /\ pc = "write_cleaned"
    /\ CLEAN_FILE' = Written(df_cleaned)
    /\ pc' = "done"
    /\ UNCHANGED <<err, raw, df, exclude_mask, exclude_reason, df_cleaned, zstats, LOG_FILE>>

Next ==
    \/ Load
    \/ DropDuplicates
    \/ CheckColumns
    \/ DropnaRequired
    \/ ParseTimestamps
    \/ Derive
    \/ Classify
    \/ WriteLog
    \/ SelectCleaned
    \/ Revalidate
    \/ Zscore
    \/ Round
    \/ WriteCleaned

Spec == Init /\ [][Next]_vars

----------------------------------------------------------------------------
\* What the raw file says about each of its rows, read off its text.

\* The file exists and its header has the six required columns.
GoodInput == raw.exists /\ Range(required_cols) \subseteq Range(raw.header)

IsDuplicate(k) == \E j \in DOMAIN raw.rows : j < k /\ raw.rows[j] = raw.rows[k]

HasBlankRequired(k) == \E c \in Range(required_cols) : raw.rows[k][c] = Blank

TimestampUnparseable(k) ==
    \E c \in {"pickup_datetime", "dropoff_datetime"} : raw.rows[k][c].s # "timestamp"

StructurallyInvalid(k) == HasBlankRequired(k) \/ TimestampUnparseable(k)

\* Deduplicated, required-field-complete, timestamp-parseable.
WorkingSet == {k \in DOMAIN raw.rows : ~IsDuplicate(k) /\ ~StructurallyInvalid(k)}

LogLabels == Labels(LOG_FILE.content)
CleanLabels == Labels(CLEAN_FILE.content)
LogRow(i) == LOG_FILE.content.data[i]
CleanRow(i) == CLEAN_FILE.content.data[i]

\* The exclusion conditions a written row satisfies, by its own cells.
Satisfies(row) ==
    [negative_or_zero_duration |-> row["trip_duration"].t = "float" /\ row["trip_duration"].v <= 0,
     missing_or_invalid_coords |-> \E c \in Range(coord_cols) : row[c].t = "nan",
     zero_or_negative_distance |->
         row["trip_distance_km"].t = "float" /\ row["trip_distance_km"].v <= 0,
     unrealistic_speed |-> row["speed_kmph"].t = "float" /\ row["speed_kmph"].v > 1200000,
     extreme_coords |->
         \/ row["pickup_latitude"].v > 900000 \/ row["pickup_latitude"].v < -900000
         \/ row["dropoff_latitude"].v > 900000 \/ row["dropoff_latitude"].v < -900000
         \/ row["pickup_longitude"].v > 1800000 \/ row["pickup_longitude"].v < -1800000
         \/ row["dropoff_longitude"].v > 1800000 \/ row["dropoff_longitude"].v < -1800000]

ReasonOrder ==
    <<"negative_or_zero_duration", "missing_or_invalid_coords", "zero_or_negative_distance",
      "unrealistic_speed", "extreme_coords">>

\* The positions in ReasonOrder of the conditions the row satisfies.
Matching(row) == {k \in DOMAIN ReasonOrder : Satisfies(row)[ReasonOrder[k]]}

RECURSIVE SumOver(_, _)
SumOver(S, f) ==
    IF S = {} THEN 0
    ELSE LET x == CHOOSE y \in S : TRUE IN f[x] + SumOver(S \ {x}, f)

----------------------------------------------------------------------------
----------------------------------------------------------------------------
\* C2 as stated: every row of the cleaned dataset as written has
\* trip_duration > 0, trip_distance_km > 0, a defined speed_kmph <= 120 and
\* the four coordinates within range.
InRange(row) ==
    /\ \A c \in {"pickup_latitude", "dropoff_latitude"} :
          row[c].t = "float" /\ row[c].v <= 900000 /\ row[c].v >= -900000
    /\ \A c \in {"pickup_longitude", "dropoff_longitude"} :
          row[c].t = "float" /\ row[c].v <= 1800000 /\ row[c].v >= -1800000

C2_WrittenDistancePositive ==
    pc = "done" =>
        \A i \in CleanLabels :
            /\ CleanRow(i)["trip_duration"].t = "float" /\ CleanRow(i)["trip_duration"].v > 0
            /\ CleanRow(i)["trip_distance_km"].t = "float"
            /\ CleanRow(i)["trip_distance_km"].v > 0
            /\ CleanRow(i)["speed_kmph"].t = "float" /\ CleanRow(i)["speed_kmph"].v <= 1200000
            /\ InRange(CleanRow(i))

----------------------------------------------------------------------------
\* C3: every row of the exclusion log appears once and carries exactly one
\* exclude_reason: the first condition, in the fixed order, that the row
\* satisfies -- never a later one, never an empty one.
C3_FirstMatchingReason ==
    LOG_FILE.written =>
        /\ Len(LOG_FILE.content.index) = Cardinality(LogLabels)
        /\ \A i \in LogLabels :
              /\ Matching(LogRow(i)) # {}
              /\ \A k \in Matching(LogRow(i)) :
                    (\A j \in Matching(LogRow(i)) : k <= j)
                        => LogRow(i)["exclude_reason"] = Str(ReasonOrder[k], 0)

\* A logged row that satisfies more than one condition.
C3_Witness ==
    /\ LOG_FILE.written
    /\ \E i \in LogLabels : Cardinality(Matching(LogRow(i))) >= 2

----------------------------------------------------------------------------
\* C4: with the raw file absent or a required column missing, the run goes
\* no further than the column check, ends in an exception, and has written
\* neither output file.
C4_AbortsBeforeAnyOutput ==
    ~GoodInput =>
        /\ pc \in {"load", "drop_duplicates", "check_columns", "aborted"}
        /\ pc = "aborted" => err \in {"FileNotFoundError", "EmptyDataError", "KeyError"}
        /\ LOG_FILE = Untouched
        /\ CLEAN_FILE = Untouched

\* The column check has raised.
C4_Witness ==
    /\ ~GoodInput
    /\ raw.rows # <<>>
    /\ pc = "aborted"
    /\ err = "KeyError"

----------------------------------------------------------------------------
\* C5 as stated: with all six required columns present, no row-level defect
\* (unparseable timestamp, coordinate that is no number, any exclusion
\* condition) aborts the run.
C5_RowDefectsNeverAbort == GoodInput => pc # "aborted"

----------------------------------------------------------------------------
\* C6: a row with an empty required field or an unparseable timestamp is in
\* neither output file and is never given an exclude_reason.
C6_StructurallyInvalidSilentlyDropped ==
    GoodInput =>
        \A k \in DOMAIN raw.rows :
            StructurallyInvalid(k) =>
                /\ k \notin LogLabels
                /\ k \notin CleanLabels
                /\ k \notin DOMAIN exclude_reason
                /\ k \notin DOMAIN exclude_mask

\* A finished run that wrote a sound row and dropped an invalid one.
C6_Witness ==
    /\ pc = "done"
    /\ CleanLabels # {}
    /\ \E k \in DOMAIN raw.rows : StructurallyInvalid(k)

----------------------------------------------------------------------------
\* C7: a run that is done has written the exclusion log; its header is the
\* working columns plus exclude_reason; with no row excluded the log has
\* no rows; a header-only input completes with both outputs empty.
C7_LogAlwaysWritten ==
    /\ pc = "done" =>
          /\ LOG_FILE.written
          /\ LOG_FILE.content.columns = raw.header \o derived_cols \o <<"exclude_reason">>
          /\ (\A i \in DOMAIN exclude_mask : ~exclude_mask[i])
                => LOG_FILE.content.index = <<>>
          /\ raw.rows = <<>> =>
                LOG_FILE.content.index = <<>> /\ CLEAN_FILE.content.index = <<>>
    /\ (GoodInput /\ raw.rows = <<>>) => pc # "aborted"

\* Rows were retained and none was excluded.
C7_Witness ==
    /\ pc = "done"
    /\ CleanLabels # {}
    /\ LogLabels = {}

----------------------------------------------------------------------------
\* C8: the mean and the population standard deviation of every _z column
\* exist only once classification, the log and the re-validation drop are
\* over, and they are those of exactly the rows of the cleaned dataset
\* (as exact fractions, the float rounding of the mean left aside).
Exact(m) == [num |-> m.num, den |-> m.den]

MeanOver(frame, c) ==
    [num |-> SumOver(Labels(frame), [i \in Labels(frame) |-> frame.data[i][c].v]),
     den |-> Cardinality(Labels(frame))]

StdOver(frame, c) ==
    LET n == Cardinality(Labels(frame))
        S == SumOver(Labels(frame), [i \in Labels(frame) |-> frame.data[i][c].v])
    IN  [num |-> SumOver(Labels(frame),
                         [i \in Labels(frame) |->
                             (n * frame.data[i][c].v - S) * (n * frame.data[i][c].v - S)]),
         den |-> n * n * n]

C8_StatisticsOverCleanedRows ==
    /\ zstats # <<>> =>
          /\ pc \in {"round", "write_cleaned", "done"}
          /\ LOG_FILE.written
          /\ Labels(df_cleaned) = {i \in Labels(df) : ~exclude_mask[i]}
          /\ \A c \in Range(coord_cols) :
                /\ Exact(zstats[c].mean) = MeanOver(df_cleaned, c)
                /\ Exact(zstats[c].std) = StdOver(df_cleaned, c)
    /\ pc = "done" =>
          /\ zstats # <<>>
          /\ \A c \in Range(coord_cols) :
                /\ Exact(zstats[c].mean) = MeanOver(CLEAN_FILE.content, c)
                /\ Exact(zstats[c].std) = StdOver(CLEAN_FILE.content, c)

\* Statistics of a run that both retained and excluded rows.
C8_Witness ==
    /\ pc = "done"
    /\ CleanLabels # {}
    /\ LogLabels # {}
    /\ zstats # <<>>

----------------------------------------------------------------------------
\* C9 as stated: when all retained values of a coordinate column are
\* identical, the run is not aborted, every retained row is written, and the
\* column's _z value is missing in every row.
AllIdentical(frame, c) ==
    /\ Labels(frame) # {}
    /\ \A i, j \in Labels(frame) : frame.data[i][c] = frame.data[j][c]

C9_ZeroDeviationGivesMissingZ ==
    \A c \in Range(coord_cols) :
        /\ (pc \in {"round", "write_cleaned"} /\ AllIdentical(df_cleaned, c)) =>
              /\ err = NoError
              /\ \A i \in Labels(df_cleaned) : df_cleaned.data[i][ZName(c)] = NaN
        /\ (pc = "done" /\ AllIdentical(df_cleaned, c)) =>
              /\ err = NoError
              /\ CleanLabels = {i \in Labels(df) : ~exclude_mask[i]}
              /\ \A i \in CleanLabels : CleanRow(i)[ZName(c)] = NaN

----------------------------------------------------------------------------
\* C10: no row is ever given the reason missing_or_invalid_coords, in
\* exclude_reason or in the log.
C10_MissingCoordsReasonUnreachable ==
    /\ \A i \in DOMAIN exclude_reason : exclude_reason[i] # "missing_or_invalid_coords"
    /\ LOG_FILE.written =>
          \A i \in LogLabels :
              LogRow(i)["exclude_reason"] # Str("missing_or_invalid_coords", 0)

\* A log with rows, from a file that had a row with an empty coordinate.
C10_Witness ==
    /\ LOG_FILE.written
    /\ LogLabels # {}
    /\ \E k \in DOMAIN raw.rows : \E c \in Range(coord_cols) : raw.rows[k][c] = Blank

====
